---- MODULE Spec2Model ----
(***************************************************************************)
(* Model of font-kit's swash loader (src/loaders/swash.rs).                *)
(*                                                                         *)
(* A font binary is a sequence of blocks.  One block stands for one table  *)
(* directory position of the binary: the TTC header of a collection, the   *)
(* table directory of one font (with the name records and the OS/2 and     *)
(* post fields the loader reads), or bytes that are neither.  An offset    *)
(* is a 0-based position in that sequence.                                 *)
(***************************************************************************)
EXTENDS Integers, Sequences, FiniteSets, TLC

VARIABLES
    bytes,     \* the font binary the caller holds (in memory and as the file)
    fonts,     \* the caller's Font values: slot -> Font struct or NoFont
    ghost,     \* per slot: the font_index and the constructor call that built it
    KEY,       \* swash's static key counter, read by CacheKey::new()
    births,    \* number of successful constructor calls so far
    last       \* the last call: operation, receiver, argument, outcome

vars == <<bytes, fonts, ghost, KEY, births, last>>

----------------------------------------------------------------------------
(* Bounds *)

MaxFonts == 2    \* Font values the caller holds at once
MaxKeys == 2     \* cache keys handed out in one run
MaxIndex == 1    \* largest font_index tried
MaxText == 1     \* chars in a get_fallbacks text
MaxGlyph == 1    \* largest glyph id tried

----------------------------------------------------------------------------
(* Option and Result values *)

None == [some |-> FALSE]

Some(v) == [some |-> TRUE, val |-> v]

Slots == 1..MaxFonts

Indexes == 0..MaxIndex

GlyphIds == 0..MaxGlyph

----------------------------------------------------------------------------
(* Font binaries *)

StringIds == {"PostScript", "Full", "Family"}

\* Name records hold UTF-16 code units: a BMP letter, a high and a low surrogate.
NameRaws == {<<"A">>, <<"B">>, <<"hi", "lo">>, <<"lo", "A">>}

NameTables == [StringIds -> {None} \cup {Some(r) : r \in {<<"A">>, <<"hi", "lo">>}}]
    \cup {[id \in StringIds |-> Some(r)] : r \in NameRaws}

\* usWeightClass, usWidthClass and the italic/oblique bits of fsSelection.
WeightClasses == {0, 400, 1000, 1023}

WidthClasses == {0, 1, 5, 9}

Selections == [italic : BOOLEAN, oblique : BOOLEAN]

Os2Tables == [weight_class : WeightClasses, width_class : WidthClasses, selection : Selections]

NoNames == [id \in StringIds |-> None]

AllNames == [id \in StringIds |-> Some(<<"A">>)]

JunkBlock == [tag |-> "junk", offsets |-> <<>>, names |-> NoNames, os2 |-> None, fixed |-> FALSE]

HeaderBlock(offs) == [tag |-> "ttcf", offsets |-> offs, names |-> NoNames, os2 |-> None, fixed |-> FALSE]

FontBlock(n, o, f) == [tag |-> "OTTO", offsets |-> <<>>, names |-> n, os2 |-> o, fixed |-> f]

\* A font with every name, and one with no PostScript name and another full name.
PlainFont == FontBlock(AllNames, None, FALSE)

OtherFont == FontBlock([AllNames EXCEPT !["PostScript"] = None, !["Full"] = Some(<<"B">>)], None, TRUE)

SeqsUpTo(S, n) == UNION {[1..k -> S] : k \in 0..n}

\* What follows the header of a collection: two fonts, then bytes of no font.
\* Offsets 1 and 2 are fonts, 0 is the header itself, 3 is junk, 4 is past the end.
CollectionBody == <<PlainFont, OtherFont, JunkBlock>>

\* Subfont offset arrays of up to two entries, pointing anywhere.
HeaderOffsets == SeqsUpTo(0..4, 2)

Collections == {<<HeaderBlock(o)>> \o CollectionBody : o \in HeaderOffsets}

\* Binaries that differ in structure: empty, junk, single fonts with and
\* without bytes after them, and collections.
StructBuffers == {<<>>, <<JunkBlock>>, <<JunkBlock, OtherFont>>, <<PlainFont>>, <<PlainFont, OtherFont>>}
    \cup Collections

\* Single fonts that differ in one table: the name records, or OS/2.
MetaBlocks == {FontBlock(n, None, f) : n \in NameTables, f \in {FALSE}}
    \cup {FontBlock(AllNames, Some(o), FALSE) : o \in Os2Tables}

MetaBuffers == {<<b>> : b \in MetaBlocks}

\* Binaries on which the whole API is exercised: a single font, a collection
\* whose only font is not at offset 0, and a file that is no font.
ApiBuffers == {<<PlainFont>>, <<HeaderBlock(<<2>>)>> \o CollectionBody, <<JunkBlock>>}

----------------------------------------------------------------------------
(* swash, the crate the loader calls, as far as the loader relies on it:    *)
(* which bytes give a font reference and at which offset, where the cache   *)
(* key comes from, and what the name, OS/2 and post tables give.            *)

FontTags == {"OTTO", "true", "0x00010000"}

is_font(data, offset) == offset < Len(data) /\ data[offset + 1].tag \in FontTags

is_collection(data) == Len(data) > 0 /\ data[1].tag = "ttcf"

count(data) ==
    IF is_collection(data) THEN Len(data[1].offsets)
    ELSE IF is_font(data, 0) THEN 1 ELSE 0

\* raw::offset: the table directory of subfont `index`, if the file has that many.
raw_offset(data, index) ==
    IF index >= count(data) THEN None
    ELSE IF is_font(data, 0) THEN Some(0)
    ELSE Some(data[1].offsets[index + 1])

\* CacheKey::new(): the next value of the static counter.
CacheKey_new == KEY

\* FontRef::from_offset: a reference with a fresh key, if a font starts there.
FontRef_from_offset(data, offset) ==
    IF is_font(data, offset)
    THEN Some([data |-> data, offset |-> offset, key |-> CacheKey_new])
    ELSE None

\* FontRef::from_index: FontDataRef::new(data)?.get(index).
FontRef_from_index(data, index) ==
    IF ~(is_font(data, 0) \/ is_collection(data)) THEN None
    ELSE LET o == raw_offset(data, index)
         IN  IF o.some THEN FontRef_from_offset(data, o.val) ELSE None

\* LocalizedString::to_string: UTF-16 decoding, U+FFFD for an unpaired surrogate.
RECURSIVE to_string(_)
to_string(raw) ==
    IF raw = <<>> THEN <<>>
    ELSE IF Head(raw) = "hi" /\ Len(raw) >= 2 /\ raw[2] = "lo"
         THEN <<"U+1F600">> \o to_string(SubSeq(raw, 3, Len(raw)))
    ELSE IF Head(raw) \in {"hi", "lo"}
         THEN <<"U+FFFD">> \o to_string(Tail(raw))
    ELSE <<Head(raw)>> \o to_string(Tail(raw))

\* FontRef::localized_strings: the name records of the font at ref.offset.
localized_strings(ref) == ref.data[ref.offset + 1].names

\* LocalizedStrings::find_by_id(id, None).
find_by_id(strings, id) == strings[id]

\* Stretch::from_raw: usWidthClass 1..9 to the raw stretch, anything else normal.
\* The raw stretch is (percentage - 50) * 2.
Stretch_from_raw(width_class) ==
    CASE width_class = 1 -> 0
      [] width_class = 2 -> 25
      [] width_class = 3 -> 50
      [] width_class = 4 -> 75
      [] width_class = 5 -> 100
      [] width_class = 6 -> 125
      [] width_class = 7 -> 150
      [] width_class = 8 -> 200
      [] width_class = 9 -> 300
      [] OTHER -> 100

\* Stretch::to_percentage, in half percents: raw * 0.5 + 50.
to_percentage_x2(stretch) == stretch + 100

\* FontRef::attributes().parts(): OS/2 packed into 9 stretch and 10 weight bits,
\* or the defaults without OS/2. Oblique carries the default angle.
attributes_parts(ref) ==
    LET os2 == ref.data[ref.offset + 1].os2
    IN  IF os2.some
        THEN [stretch |-> Stretch_from_raw(os2.val.width_class) % 512,
              weight |-> os2.val.weight_class % 1024,
              style |-> IF os2.val.selection.italic THEN [kind |-> "Italic", angle |-> 0]
                        ELSE IF os2.val.selection.oblique THEN [kind |-> "Oblique", angle |-> 14]
                        ELSE [kind |-> "Normal", angle |-> 0]]
        ELSE [stretch |-> 100, weight |-> 400, style |-> [kind |-> "Normal", angle |-> 0]]

\* FontRef::metrics(&[]).is_monospace: the post table's fixed pitch flag.
metrics_is_monospace(ref) == ref.data[ref.offset + 1].fixed

----------------------------------------------------------------------------
(* The loader: struct Font and its methods *)

NoFont == [live |-> FALSE, data |-> <<>>, offset |-> 0, key |-> 0]

Font(data, offset, key) == [live |-> TRUE, data |-> data, offset |-> offset, key |-> key]

NoGhost == [index |-> 0, birth |-> 0, offset |-> 0, key |-> 0]

\* Outcomes of a call: a returned value, or a panic with its message. A panic
\* unwinds out of the call; the Font it was called on, borrowed as &self, is
\* left as it was.
Returned(kind, value, keys) == [kind |-> kind, value |-> value, keys |-> keys]

Panicked(msg) == [kind |-> "panic", value |-> msg, keys |-> 0]

\* from_bytes without the check of the reference: a Font at offset 0 whatever the bytes.
from_bytes_unchecked(data, index) ==
    LET font == FontRef_from_index(data, index)
    IN  IF font.some
        THEN Returned("ok", Font(data, font.val.offset, font.val.key), 1)
        ELSE Returned("ok", Font(data, 0, CacheKey_new), 1)

\* from_bytes with a key computed from the offset instead of swash's fresh one.
from_bytes_derived_key(data, index) ==
    LET font == FontRef_from_index(data, index)
    IN  IF font.some
        THEN Returned("ok", Font(data, font.val.offset, font.val.offset + 1), 1)
        ELSE Returned("err_parse", NoFont, 0)

\* from_bytes: Ok with copies of the reference's offset and key, else Err(Parse).
\* keys counts the cache keys the call drew from swash.
from_bytes(data, index) ==
    LET font == FontRef_from_index(data, index)
    IN  IF font.some
        THEN Returned("ok", Font(data, font.val.offset, font.val.key), 1)
        ELSE Returned("err_parse", NoFont, 0)

\* utils::slurp_file: everything from the file's position to its end.
slurp_file(file) == SubSeq(file.contents, file.pos + 1, Len(file.contents))

\* from_file without the seek: the read starts at the file's position.
from_file_no_seek(file, font_index) ==
    IF file.io # "ok" THEN Returned("err_io", NoFont, 0)
    ELSE from_bytes(slurp_file(file), font_index)

\* from_file: seek to the start, read the file whole, then from_bytes.
\* io says whether the operating system lets the seek and the read succeed.
from_file(file, font_index) ==
    IF file.io = "seek fails" THEN Returned("err_io", NoFont, 0)
    ELSE LET rewound == [file EXCEPT !.pos = 0]
         IN  IF file.io = "read fails" THEN Returned("err_io", NoFont, 0)
             ELSE from_bytes(slurp_file(rewound), font_index)

\* as_ref through a FontRef constructor: the reference gets a new key.
as_ref_new_key(self) == [data |-> self.data, offset |-> self.offset, key |-> CacheKey_new]

\* as_ref: the transient reference, built from the stored fields.
as_ref(self) == [data |-> self.data, offset |-> self.offset, key |-> self.key]

find_localized_string(self, id) ==
    LET s == find_by_id(localized_strings(as_ref(self)), id)
    IN  IF s.some THEN Some(to_string(s.val)) ELSE None

\* postscript_name looking up the full name's id.
postscript_name_full_id(self) == Returned("ok", find_localized_string(self, "Full"), 0)

postscript_name(self) == Returned("ok", find_localized_string(self, "PostScript"), 0)

\* Option::expect: the value, or a panic with the message.
expect(opt, msg) == IF opt.some THEN Returned("ok", opt.val, 0) ELSE Panicked(msg)

\* full_name with unwrap_or_default: an empty string for a missing entry.
full_name_or_default(self) ==
    LET s == find_localized_string(self, "Full")
    IN  IF s.some THEN Returned("ok", s.val, 0) ELSE Returned("ok", <<>>, 0)

full_name(self) == expect(find_localized_string(self, "Full"), "Full name not available")

family_name(self) == expect(find_localized_string(self, "Family"), "Family name not available")

is_monospace(self) == Returned("ok", metrics_is_monospace(as_ref(self)), 0)

\* properties: the stretch as a percentage (here in half percents), the weight
\* as it comes, the style without its angle.
properties(self) ==
    LET parts == attributes_parts(as_ref(self))
    IN  Returned("ok", [stretch_x2 |-> to_percentage_x2(parts.stretch),
                        weight |-> parts.weight,
                        style |-> parts.style.kind], 0)

copy_font_data(self) == Returned("ok", Some(self.data), 0)

\* UTF-8 width of a char, and str::len: the byte length.
TextChars == {"a", "U+5B57"}

utf8_width(c) == IF c = "a" THEN 1 ELSE 3

RECURSIVE str_len(_)
str_len(text) == IF text = <<>> THEN 0 ELSE utf8_width(Head(text)) + str_len(Tail(text))

Texts == SeqsUpTo(TextChars, MaxText)

Locales == {"", "en-US"}

\* The file a caller hands to from_file: its cursor anywhere when the seek and
\* the read work, at the end (the caller has read it all) when one of them fails.
Files(contents) ==
    {[contents |-> contents, pos |-> p, io |-> "ok"] : p \in 0..Len(contents)}
    \cup {[contents |-> contents, pos |-> Len(contents), io |-> f] : f \in {"seek fails", "read fails"}}

\* get_fallbacks counting chars instead of bytes.
get_fallbacks_chars(self, text, locale) ==
    Returned("ok", [fonts |-> <<>>, valid_len |-> Len(text)], 0)

get_fallbacks(self, text, locale) ==
    Returned("ok", [fonts |-> <<>>, valid_len |-> str_len(text)], 0)

\* impl Debug: the full name in quotes; full_name's panic passes through.
fmt(self) ==
    LET name == full_name(self)
    IN  IF name.kind = "ok" THEN Returned("ok", <<"quote">> \o name.value \o <<"quote">>, 0)
        ELSE name

\* unimplemented!() and todo!(): the call panics.
unimplemented == Panicked("not implemented")

todo == Panicked("not yet implemented")

from_native_font(font) == unimplemented

native_font(self) == unimplemented

glyph_count(self) == unimplemented

typographic_bounds(self, glyph_id) == unimplemented

advance(self, glyph_id) == unimplemented

origin(self, glyph_id) == unimplemented

analyze_bytes(data) == todo

\* The remaining stubs, all unimplemented!().
StubMethods == {"glyph_for_char", "glyph_by_name", "outline", "metrics", "raster_bounds",
                "rasterize_glyph", "supports_hinting_options", "load_font_table"}

stub_method(self, name) == unimplemented

----------------------------------------------------------------------------
(* Calls *)

Call(op, h, arg, r, view) ==
    [op |-> op, h |-> h, arg |-> arg, kind |-> r.kind, value |-> r.value,
     keys |-> r.keys, view |-> view]

\* A constructor's result assigned to slot h when it is Ok; swash's counter
\* moves by the keys the call drew.
Construct(op, h, arg, index, r) ==
    /\ KEY <= MaxKeys
    /\ last' = Call(op, h, arg, r, None)
    /\ KEY' = KEY + r.keys
    /\ IF r.kind = "ok"
       THEN /\ fonts' = [fonts EXCEPT ![h] = r.value]
            /\ births' = births + 1
            /\ ghost' = [ghost EXCEPT ![h] = [index |-> index, birth |-> births + 1,
                                               offset |-> r.value.offset, key |-> r.value.key]]
       ELSE UNCHANGED <<fonts, births, ghost>>
    /\ UNCHANGED bytes

\* A call on &self: nothing but the outcome changes.
Access(op, h, arg, r, view) ==
    /\ fonts[h].live
    /\ last' = Call(op, h, arg, r, view)
    /\ UNCHANGED <<bytes, fonts, ghost, KEY, births>>

FromBytes(h, index) ==
    Construct("from_bytes", h, index, index, from_bytes(bytes, index))

FromFile(h, file, index) ==
    Construct("from_file", h, [index |-> index, pos |-> file.pos, io |-> file.io],
              index, from_file(file, index))

\* #[derive(Clone)]: the Arc, the offset and the key are copied.
Clone(h, t) ==
    /\ fonts[h].live
    /\ t # h
    /\ fonts' = [fonts EXCEPT ![t] = fonts[h]]
    /\ ghost' = [ghost EXCEPT ![t] = ghost[h]]
    /\ last' = Call("clone", t, h, Returned("ok", fonts[h], 0), None)
    /\ UNCHANGED <<bytes, KEY, births>>

PostscriptName(h) ==
    Access("postscript_name", h, 0, postscript_name(fonts[h]), Some(as_ref(fonts[h])))

FullName(h) ==
    Access("full_name", h, 0, full_name(fonts[h]), Some(as_ref(fonts[h])))

FamilyName(h) ==
    Access("family_name", h, 0, family_name(fonts[h]), Some(as_ref(fonts[h])))

IsMonospace(h) ==
    Access("is_monospace", h, 0, is_monospace(fonts[h]), Some(as_ref(fonts[h])))

Properties(h) ==
    Access("properties", h, 0, properties(fonts[h]), Some(as_ref(fonts[h])))

CopyFontData(h) ==
    Access("copy_font_data", h, 0, copy_font_data(fonts[h]), None)

GetFallbacks(h, text, locale) ==
    Access("get_fallbacks", h, text, get_fallbacks(fonts[h], text, locale), None)

Fmt(h) ==
    Access("fmt", h, 0, fmt(fonts[h]), Some(as_ref(fonts[h])))

NativeFont(h) ==
    Access("native_font", h, 0, native_font(fonts[h]), None)

FromNativeFont(h) ==
    Access("from_native_font", h, 0, from_native_font(fonts[h]), None)

GlyphCount(h) ==
    Access("glyph_count", h, 0, glyph_count(fonts[h]), None)

TypographicBounds(h, g) ==
    Access("typographic_bounds", h, g, typographic_bounds(fonts[h], g), None)

Advance(h, g) ==
    Access("advance", h, g, advance(fonts[h], g), None)

Origin(h, g) ==
    Access("origin", h, g, origin(fonts[h], g), None)

StubMethod(h, name) ==
    Access(name, h, 0, stub_method(fonts[h], name), None)

AnalyzeBytes ==
    /\ last' = Call("analyze_bytes", 0, 0, analyze_bytes(bytes), None)
    /\ UNCHANGED <<bytes, fonts, ghost, KEY, births>>

----------------------------------------------------------------------------
(* Specifications *)

NoCall == Call("none", 0, 0, Returned("ok", 0, 0), None)

InitWith(buffers) ==
    /\ bytes \in buffers
    /\ fonts = [h \in Slots |-> NoFont]
    /\ ghost = [h \in Slots |-> NoGhost]
    /\ KEY = 1
    /\ births = 0
    /\ last = NoCall

\* The whole API, on a few binaries.
Init == InitWith(ApiBuffers)

Load ==
    \/ \E h \in Slots, i \in Indexes : FromBytes(h, i)
    \/ \E h \in Slots, file \in Files(bytes), i \in Indexes : FromFile(h, file, i)
    \/ \E h \in Slots, t \in Slots : Clone(h, t)
    \/ \E h \in Slots : CopyFontData(h)

Metadata ==
    \/ \E h \in Slots : PostscriptName(h)
    \/ \E h \in Slots : FullName(h)
    \/ \E h \in Slots : FamilyName(h)
    \/ \E h \in Slots : IsMonospace(h)
    \/ \E h \in Slots : Properties(h)
    \/ \E h \in Slots : Fmt(h)

Glyphs ==
    \/ \E h \in Slots, text \in Texts, locale \in Locales : GetFallbacks(h, text, locale)
    \/ \E h \in Slots : NativeFont(h)
    \/ \E h \in Slots : FromNativeFont(h)
    \/ \E h \in Slots : GlyphCount(h)
    \/ \E h \in Slots, g \in GlyphIds : TypographicBounds(h, g)
    \/ \E h \in Slots, g \in GlyphIds : Advance(h, g)
    \/ \E h \in Slots, g \in GlyphIds : Origin(h, g)
    \/ \E h \in Slots, name \in StubMethods : StubMethod(h, name)
    \/ AnalyzeBytes

Next == Load \/ Metadata \/ Glyphs

Spec == Init /\ [][Next]_vars

\* Loading alone, on every structure of binary.
LoadInit == InitWith(StructBuffers)

LoadSpec == LoadInit /\ [][Load]_vars

\* Loading and the metadata queries, on fonts that differ in their tables.
MetaInit == InitWith(MetaBuffers)

MetaNext == (\E h \in Slots, i \in Indexes : FromBytes(h, i)) \/ Metadata

MetaSpec == MetaInit /\ [][MetaNext]_vars

----------------------------------------------------------------------------
(* Properties *)

Live(h) == fonts[h].live

\* The table directory a loaded font reads, and its name records.
BlockOf(h) == bytes[fonts[h].offset + 1]

\* Whether subfont `index` of `data` exists: a single font has subfont 0 only,
\* a collection those its header lists, each at a font's table directory.
HasSubfont(data, index) ==
    /\ Len(data) >= 1
    /\ \/ data[1].tag \in FontTags /\ index = 0
       \/ /\ data[1].tag = "ttcf"
          /\ index < Len(data[1].offsets)
          /\ LET o == data[1].offsets[index + 1]
             IN  o < Len(data) /\ data[o + 1].tag \in FontTags

\* C1: from_bytes returns Ok(font) or Err(Parse) and nothing else; it returns
\* Err(Parse) exactly when the bytes hold no font at that index, and then no Font
\* is built; an Ok font holds the whole buffer and the offset of a font in it.
C1_FromBytesOkOrParse ==
    last.op = "from_bytes" =>
        /\ last.kind \in {"ok", "err_parse"}
        /\ (last.kind = "err_parse") <=> ~HasSubfont(bytes, last.arg)
        /\ last.kind = "err_parse" => last.value = NoFont /\ last.keys = 0
        /\ last.kind = "ok" =>
              /\ last.value.live
              /\ last.value.data = bytes
              /\ last.value.offset < Len(bytes)
              /\ bytes[last.value.offset + 1].tag \in FontTags
              /\ last.value.key >= 1
              /\ fonts[last.h] = last.value

\* font_index 1 on a single-font file was refused.
C1_Witness ==
    /\ last.op = "from_bytes"
    /\ last.arg = 1
    /\ bytes = <<PlainFont>>
    /\ last.kind = "err_parse"

ByteLength(text) == Len(text) + 2 * Cardinality({i \in DOMAIN text : text[i] = "U+5B57"})

\* C3: get_fallbacks returns no fonts and valid_len = the byte length of the
\* text, which lies in 0..len(text); it does not fail.
C3_FallbacksCoverAll ==
    last.op = "get_fallbacks" =>
        /\ last.kind = "ok"
        /\ last.value.fonts = <<>>
        /\ last.value.valid_len = ByteLength(last.arg)
        /\ 0 <= last.value.valid_len
        /\ last.value.valid_len <= ByteLength(last.arg)

\* A text whose byte length is not its char count.
C3_Witness ==
    /\ last.op = "get_fallbacks"
    /\ last.arg = <<"U+5B57">>
    /\ last.value.valid_len = 3

\* C4, as claimed: glyph_count returns a count, and advance and
\* typographic_bounds return Ok or a GlyphLoadingError, never a panic.
C4_GlyphCallsReturn ==
    /\ last.op = "glyph_count" => last.kind = "ok"
    /\ last.op \in {"advance", "typographic_bounds"} => last.kind \in {"ok", "err_glyph"}

UnsupportedOps == {"native_font", "from_native_font", "glyph_count", "typographic_bounds",
                   "advance", "origin", "analyze_bytes"} \cup StubMethods

\* C5, as claimed: a method this backend does not support returns an
\* "unsupported" error; it does not panic.
C5_UnsupportedIsAnError ==
    last.op \in UnsupportedOps => last.kind = "err_unsupported"

\* C6: postscript_name returns None when the font has no PostScript name
\* record and Some(text of the record) when it has one; it never fails.
C6_PostscriptNameOption ==
    last.op = "postscript_name" =>
        /\ last.kind = "ok"
        /\ LET entry == BlockOf(last.h).names["PostScript"]
           IN  IF entry.some THEN last.value = Some(to_string(entry.val))
               ELSE last.value = None

\* postscript_name answered None for a font that has a full name.
C6_Witness ==
    /\ last.op = "postscript_name"
    /\ last.kind = "ok"
    /\ last.value = None
    /\ BlockOf(last.h).names["Full"].some

\* C7: from_file returns what from_bytes returns on the whole file, wherever
\* the file's position was; when the seek or the read fails it returns an I/O
\* error, builds no Font and draws no key.
C7_FromFileReadsWhole ==
    last.op = "from_file" =>
        IF last.arg.io = "ok"
        THEN LET r == from_bytes(bytes, last.arg.index)
             IN  /\ last.kind = r.kind
                 /\ last.keys = r.keys
                 /\ last.value.live = r.value.live
                 /\ last.value.data = r.value.data
                 /\ last.value.offset = r.value.offset
                 /\ last.kind = "ok" => last.value.data = bytes /\ fonts[last.h] = last.value
        ELSE last.kind = "err_io" /\ last.value = NoFont /\ last.keys = 0

\* A file already read past its start was loaded.
C7_Witness ==
    /\ last.op = "from_file"
    /\ last.arg.io = "ok"
    /\ last.arg.pos > 0
    /\ last.kind = "ok"
    /\ last.value.data = bytes

\* C8, as claimed: properties returns one of the three styles, a stretch in
\* [50, 200] percent and a weight in [1, 1000], and (100, 400) without OS/2.
C8_PropertiesInRange ==
    last.op = "properties" =>
        /\ last.kind = "ok"
        /\ last.value.style \in {"Normal", "Italic", "Oblique"}
        /\ 100 <= last.value.stretch_x2 /\ last.value.stretch_x2 <= 400
        /\ 1 <= last.value.weight /\ last.value.weight <= 1000
        /\ ~BlockOf(last.h).os2.some => last.value.stretch_x2 = 200 /\ last.value.weight = 400

\* C9: every Font keeps the buffer, offset and key fixed when it was built;
\* every reference as_ref builds carries the stored buffer, offset and key;
\* copy_font_data returns the whole buffer. This holds in every state, hence
\* after any accessor, clone or failed call.
C9_HandleNeverChanges ==
    /\ \A h \in Slots : Live(h) =>
          /\ fonts[h].data = bytes
          /\ fonts[h].offset = ghost[h].offset
          /\ fonts[h].key = ghost[h].key
    /\ last.view.some =>
          /\ last.view.val.data = bytes
          /\ last.view.val.offset = ghost[last.h].offset
          /\ last.view.val.key = ghost[last.h].key
    /\ last.op = "copy_font_data" => last.kind = "ok" /\ last.value = Some(bytes)

\* A query through as_ref on a font of a collection, after a later constructor
\* call has moved swash's counter on.
C9_Witness ==
    /\ last.view.some
    /\ last.view.val.offset > 0
    /\ last.view.val.key = fonts[last.h].key
    /\ KEY > fonts[last.h].key + 1

====
